---- MODULE Spec2Model ----
(***************************************************************************)
(* A model of yaraft's RaftLog (src/src/raft_log.h): the log manager of a  *)
(* Raft node, composed of an Unstable buffer and a Storage collaborator.   *)
(*                                                                         *)
(* RaftLog's own methods are translated from raft_log.h.  The Unstable     *)
(* buffer (unstable.h) and the Storage collaborator (storage.h) are not    *)
(* part of the translated file; they are modelled from the written         *)
(* specification of the log manager (its sections 4.2 and 6).              *)
(*                                                                         *)
(* An entry is a record [index, term]; a snapshot is a record [index,      *)
(* term]; the optional pending snapshot is a sequence of length 0 or 1.    *)
(***************************************************************************)
EXTENDS Integers, Sequences, FiniteSets, TLC

VARIABLES
    storage_,       \* the Storage collaborator: [first, last, terms]
    unstable_,      \* the Unstable buffer: [offset, entries, snapshot]
    commitIndex_,   \* RaftLog::commitIndex_
    lastApplied_,   \* RaftLog::lastApplied_
    alive,          \* FALSE once a fatal condition has ended the process
    call            \* the last call made on the log and how it ended

vars == <<storage_, unstable_, commitIndex_, lastApplied_, alive, call>>

logState == <<unstable_, commitIndex_, lastApplied_>>

----------------------------------------------------------------------------
(* Bounds of the model. *)

\* highest index an entry or a snapshot of an input carries
MaxIndex == 2

\* the terms entries and snapshots carry: 0 is the term of no real entry.
\* The log only compares terms (=, >), so two real terms show every case.
Terms == 1..2

Indices == 0..MaxIndex

\* highest last index of the Storage the log is constructed on: it leaves
\* room for an entry above it
MaxStorageLast == MaxIndex - 1

Min(a, b) == IF a < b THEN a ELSE b
Max(a, b) == IF a > b THEN a ELSE b

Entry(i, t) == [index |-> i, term |-> t]

\* the payload of an entry is opaque: the model gives an entry of term t a
\* payload of size t, so that the entries of a log differ in size
PayloadSize(e) == e.term

RECURSIVE TotalSize(_)
TotalSize(ents) ==
    IF ents = <<>> THEN 0 ELSE PayloadSize(Head(ents)) + TotalSize(Tail(ents))

\* the longest prefix of the entries whose payloads fit the budget
LimitSize(ents, maxSize) ==
    SubSeq(ents, 1,
           CHOOSE k \in 0..Len(ents) :
              /\ TotalSize(SubSeq(ents, 1, k)) <= maxSize
              /\ k < Len(ents) => TotalSize(SubSeq(ents, 1, k + 1)) > maxSize)

\* the runs of k entries with contiguous indices s, s+1, ..
RunsFrom(s, k) ==
    { [j \in 1..k |-> Entry(s + j - 1, ts[j])] : ts \in [1..k -> Terms] }

\* the runs a caller passes: contiguous, strictly increasing indices within
\* 1..MaxIndex, the empty run among them
Runs ==
    UNION { UNION { RunsFrom(s, k) : k \in 0..(MaxIndex - s + 1) } :
            s \in 1..MaxIndex }

Snapshots == { Entry(i, t) : i \in 1..MaxIndex, t \in Terms }

\* status values of StatusWith<uint64_t>
Ok(v) == [ok |-> TRUE, value |-> v, code |-> "OK"]
Err(c) == [ok |-> FALSE, value |-> 0, code |-> c]

----------------------------------------------------------------------------
(* The Storage collaborator. *)

\* the logs a Storage can hold: a dummy entry at first-1 and entries
\* first..last, terms never decreasing along the log
Storages ==
    { [first |-> f, last |-> l, terms |-> ts] :
        f \in 1..2, l \in 0..MaxStorageLast, ts \in [0..MaxStorageLast -> {0} \cup Terms] }

StorageWellFormed(s) ==
    /\ s.last >= s.first - 1
    /\ \A i \in 0..MaxStorageLast :
          /\ (i < s.first - 1 \/ i > s.last) => s.terms[i] = 0
          /\ (i >= s.first /\ i <= s.last) => s.terms[i] >= 1
          /\ (i >= s.first /\ i < s.last) => s.terms[i] <= s.terms[i + 1]
    /\ (s.first - 1 < s.last) => s.terms[s.first - 1] <= s.terms[s.first]
    /\ (s.first = 1) => s.terms[0] = 0
    /\ (s.first > 1) => s.terms[s.first - 1] >= 1

StorageFirstIndex == storage_.first

StorageLastIndex == storage_.last

StorageTerm(i) ==
    IF i < storage_.first - 1 THEN Err("LogCompacted")
    ELSE IF i > storage_.last THEN Err("OutOfBound")
    ELSE Ok(storage_.terms[i])

\* Storage::Entries(lo, hi, &maxSize): the entries of [lo, hi) that fit the
\* budget, and in maxSize what is left of the budget
StorageEntries(lo, hi, maxSize) ==
    IF lo < storage_.first
    THEN [ok |-> FALSE, code |-> "LogCompacted", value |-> <<>>, maxSize |-> maxSize]
    ELSE IF hi > storage_.last + 1
    THEN [ok |-> FALSE, code |-> "OutOfBound", value |-> <<>>, maxSize |-> maxSize]
    ELSE LET ents == LimitSize([k \in 1..(hi - lo) |->
                                   Entry(lo + k - 1, storage_.terms[lo + k - 1])],
                               maxSize)
         IN  [ok |-> TRUE, code |-> "OK", value |-> ents,
              maxSize |-> maxSize - TotalSize(ents)]

\* Storage's snapshot stands at the dummy entry; a Storage that was never
\* compacted has none
StorageSnapshot ==
    IF storage_.first > 1
    THEN Ok(Entry(storage_.first - 1, storage_.terms[storage_.first - 1]))
    ELSE Err("SnapshotUnavailable")

----------------------------------------------------------------------------
(* The Unstable buffer. *)

NoSnapshot == <<>>

HasSnapshot == unstable_.snapshot # NoSnapshot

PendingSnapshot == unstable_.snapshot[1]

\* 0 is the "unknown" sentinel: the index is outside [offset, offset+len)
MaybeTerm(i) ==
    IF /\ i >= unstable_.offset
       /\ i < unstable_.offset + Len(unstable_.entries)
    THEN unstable_.entries[i - unstable_.offset + 1].term
    ELSE 0

\* the buffer after the run (not empty) is merged in; s is the run's first
\* index, n the buffer's length
TruncateAndAppend(run) ==
    LET s == run[1].index
        offset == unstable_.offset
        n == Len(unstable_.entries)
    IN  CASE s = offset + n ->
               [unstable_ EXCEPT !.entries = @ \o run]
          [] s = offset ->
               [unstable_ EXCEPT !.entries = run]
          [] offset < s /\ s < offset + n ->
               [unstable_ EXCEPT !.entries = SubSeq(@, 1, s - offset) \o run]
          [] s < offset ->
               [unstable_ EXCEPT !.offset = s, !.entries = run]

\* the starts TruncateAndAppend is defined for: s == offset + n, s == offset,
\* offset < s < offset + n, s < offset
TruncateAndAppendDefined(run) ==
    run[1].index <= unstable_.offset + Len(unstable_.entries)

\* CopyTo(dest, lo, hi, maxSize): dest followed by the buffered entries of
\* [lo, hi) that fit the budget
CopyTo(dest, lo, hi, maxSize) ==
    LET from == Max(lo, unstable_.offset)
        to == Min(hi, unstable_.offset + Len(unstable_.entries))
    IN  dest \o LimitSize(SubSeq(unstable_.entries,
                                 from - unstable_.offset + 1,
                                 to - unstable_.offset),
                          maxSize)

UnstableRestore(snap) ==
    [offset |-> snap.index + 1, entries |-> <<>>, snapshot |-> <<snap>>]

----------------------------------------------------------------------------
(* RaftLog: the queries. *)

\* LastIndex looking at the pending snapshot before the unstable entries
LastIndex_PrefersSnapshot ==
    IF HasSnapshot
    THEN PendingSnapshot.index
    ELSE IF unstable_.entries # <<>>
    THEN unstable_.entries[Len(unstable_.entries)].index
    ELSE StorageLastIndex

LastIndex ==
    IF unstable_.entries # <<>>
    THEN unstable_.entries[Len(unstable_.entries)].index
    ELSE IF HasSnapshot
    THEN PendingSnapshot.index
    ELSE StorageLastIndex

FirstIndex ==
    IF HasSnapshot THEN PendingSnapshot.index + 1 ELSE StorageFirstIndex

\* Term refusing the last index: >= where the code compares with >
Term_LastExcluded(index) ==
    LET dummyIndex == FirstIndex - 1
        term == MaybeTerm(index)
    IN  IF index >= LastIndex \/ index < dummyIndex THEN Err("OutOfBound")
        ELSE IF term # 0 THEN Ok(term)
        ELSE StorageTerm(index)

Term(index) ==
    LET dummyIndex == FirstIndex - 1
        term == MaybeTerm(index)
    IN  IF index > LastIndex \/ index < dummyIndex THEN Err("OutOfBound")
        ELSE IF term # 0 THEN Ok(term)
        ELSE StorageTerm(index)

\* LastTerm is fatal when Term(LastIndex()) is not OK
LastTerm == Term(LastIndex)

HasEntry(index, term) ==
    LET s == Term(index) IN IF s.ok THEN s.value = term ELSE FALSE

\* the position in the run (1..Len) of the first entry the log does not hold,
\* Len + 1 for `end`
\* FindConflict looking for the first entry beyond the log only, whatever
\* the terms
RECURSIVE FindConflictFrom_IndexOnly(_, _)
FindConflictFrom_IndexOnly(run, it) ==
    IF it > Len(run) THEN it
    ELSE IF run[it].index > LastIndex THEN it
    ELSE FindConflictFrom_IndexOnly(run, it + 1)

RECURSIVE FindConflictFrom(_, _)
FindConflictFrom(run, it) ==
    IF it > Len(run) THEN it
    ELSE IF ~HasEntry(run[it].index, run[it].term) THEN it
    ELSE FindConflictFrom(run, it + 1)

FindConflict(run) == FindConflictFrom(run, 1)

\* `fatal` when Term(index) fails with anything but LogCompacted
ZeroTermOnErrCompacted(index) ==
    LET st == Term(index)
    IN  IF st.ok THEN [fatal |-> FALSE, value |-> st.value]
        ELSE IF st.code = "LogCompacted" THEN [fatal |-> FALSE, value |-> 0]
        ELSE [fatal |-> TRUE, value |-> 0]

\* FindConflict writes a diagnostic for a conflict at an index within the
\* log; the diagnostic reads the existing term with ZeroTermOnErrCompacted
ConflictLogFatal(run, it) ==
    /\ it <= Len(run)
    /\ run[it].index <= LastIndex
    /\ ZeroTermOnErrCompacted(run[it].index).fatal

FindConflictFatal(run) == ConflictLogFatal(run, FindConflict(run))

\* IsUpToDate reads LastTerm(), which is fatal when Term(LastIndex()) fails
IsUpToDate(index, term) ==
    IF ~LastTerm.ok
    THEN [fatal |-> TRUE, ret |-> FALSE]
    ELSE [fatal |-> FALSE,
          ret |-> \/ term > LastTerm.value
                  \/ (term = LastTerm.value /\ index >= LastIndex)]

\* MustCheckOutOfBounds rejecting hi == LastIndex() + 1
MustCheckOutOfBounds_ExcludesLast(lo, hi) ==
    IF lo > hi THEN [fatal |-> TRUE, code |-> "OK"]
    ELSE LET fi == FirstIndex
             li == LastIndex
             length == li + 1 - fi
         IN  IF lo < fi THEN [fatal |-> FALSE, code |-> "LogCompacted"]
             ELSE IF lo < fi \/ hi >= fi + length
             THEN [fatal |-> TRUE, code |-> "OK"]
             ELSE [fatal |-> FALSE, code |-> "OK"]

MustCheckOutOfBounds(lo, hi) ==
    IF lo > hi THEN [fatal |-> TRUE, code |-> "OK"]
    ELSE LET fi == FirstIndex
             li == LastIndex
             length == li + 1 - fi
         IN  IF lo < fi THEN [fatal |-> FALSE, code |-> "LogCompacted"]
             ELSE IF lo < fi \/ hi > fi + length
             THEN [fatal |-> TRUE, code |-> "OK"]
             ELSE [fatal |-> FALSE, code |-> "OK"]

\* the part of Entries that follows the Storage read s: the read's own
\* error, or the entries read and, unless the read was short, the unstable
\* ones
EntriesAfterStorage(lo, hi, s) ==
    LET uOffset == unstable_.offset
    IN  IF s.code = "LogCompacted"
        THEN [fatal |-> FALSE, code |-> "LogCompacted", value |-> <<>>]
        ELSE IF ~s.ok
        THEN [fatal |-> TRUE, code |-> s.code, value |-> <<>>]
        ELSE IF Len(s.value) < Min(hi, uOffset) - lo
        THEN [fatal |-> FALSE, code |-> "OK", value |-> s.value]
        ELSE IF hi > uOffset
        THEN [fatal |-> FALSE, code |-> "OK",
              value |-> CopyTo(s.value, Max(lo, uOffset), hi, s.maxSize)]
        ELSE [fatal |-> FALSE, code |-> "OK", value |-> s.value]

\* Entries going on to the unstable entries after a short Storage read
Entries_IgnoresShortRead(lo, hi, maxSize) ==
    LET uOffset == unstable_.offset
        chk == MustCheckOutOfBounds(lo, hi)
    IN  IF chk.fatal THEN [fatal |-> TRUE, code |-> "OK", value |-> <<>>]
        ELSE IF chk.code # "OK"
        THEN [fatal |-> FALSE, code |-> chk.code, value |-> <<>>]
        ELSE IF lo = hi THEN [fatal |-> FALSE, code |-> "OK", value |-> <<>>]
        ELSE IF lo < uOffset
        THEN CHOOSE r \in
                { IF ~s.ok THEN EntriesAfterStorage(lo, hi, s)
                  ELSE IF hi > uOffset
                  THEN [fatal |-> FALSE, code |-> "OK",
                        value |-> CopyTo(s.value, Max(lo, uOffset), hi, s.maxSize)]
                  ELSE [fatal |-> FALSE, code |-> "OK", value |-> s.value] :
                  s \in {StorageEntries(lo, Min(hi, uOffset), maxSize)} } : TRUE
        ELSE [fatal |-> FALSE, code |-> "OK",
              value |-> CopyTo(<<>>, Max(lo, uOffset), hi, maxSize)]

\* Entries(lo, hi, maxSize)
Entries(lo, hi, maxSize) ==
    LET uOffset == unstable_.offset
        chk == MustCheckOutOfBounds(lo, hi)
    IN  IF chk.fatal THEN [fatal |-> TRUE, code |-> "OK", value |-> <<>>]
        ELSE IF chk.code # "OK"
        THEN [fatal |-> FALSE, code |-> chk.code, value |-> <<>>]
        ELSE IF lo = hi THEN [fatal |-> FALSE, code |-> "OK", value |-> <<>>]
        ELSE IF lo < uOffset
        THEN CHOOSE r \in
                { EntriesAfterStorage(lo, hi, s) :
                  s \in {StorageEntries(lo, Min(hi, uOffset), maxSize)} } : TRUE
        ELSE [fatal |-> FALSE, code |-> "OK",
              value |-> CopyTo(<<>>, Max(lo, uOffset), hi, maxSize)]

----------------------------------------------------------------------------
(* RaftLog: the operations, each as the outcome of one call in the current *)
(* state.  `fatal` says the call hit a fatal condition; the other fields   *)
(* are the values the call leaves behind.                                  *)

\* Append comparing with < where the code compares with <=
RaftLogAppend_CommitOffByOne(run) ==
    IF run = <<>>
    THEN [fatal |-> FALSE, unstable |-> unstable_]
    ELSE IF run[1].index < commitIndex_
    THEN [fatal |-> TRUE, unstable |-> unstable_]
    ELSE [fatal |-> FALSE, unstable |-> TruncateAndAppend(run)]

\* Append checking the last entry of the run where the code checks the first
RaftLogAppend_ChecksLast(run) ==
    IF run = <<>>
    THEN [fatal |-> FALSE, unstable |-> unstable_]
    ELSE IF run[Len(run)].index <= commitIndex_
    THEN [fatal |-> TRUE, unstable |-> unstable_]
    ELSE [fatal |-> FALSE, unstable |-> TruncateAndAppend(run)]

\* Append without the check against commitIndex_
RaftLogAppend_NoCommitCheck(run) ==
    IF run = <<>>
    THEN [fatal |-> FALSE, unstable |-> unstable_]
    ELSE [fatal |-> FALSE, unstable |-> TruncateAndAppend(run)]

\* RaftLog::Append (Sequences already defines Append)
RaftLogAppend(run) ==
    IF run = <<>>
    THEN [fatal |-> FALSE, unstable |-> unstable_]
    ELSE IF run[1].index <= commitIndex_
    THEN [fatal |-> TRUE, unstable |-> unstable_]
    ELSE [fatal |-> FALSE, unstable |-> TruncateAndAppend(run)]

\* CommitTo without the guard `to > commitIndex_`
CommitTo_NoGuard(to) ==
    IF LastIndex < to
    THEN [fatal |-> TRUE, commitIndex |-> commitIndex_]
    ELSE [fatal |-> FALSE, commitIndex |-> to]

\* CommitTo without the check against LastIndex()
CommitTo_NoLastIndexCheck(to) ==
    IF to > commitIndex_
    THEN [fatal |-> FALSE, commitIndex |-> to]
    ELSE [fatal |-> FALSE, commitIndex |-> commitIndex_]

\* CommitTo refusing to == LastIndex()
CommitTo_StrictBound(to) ==
    IF to > commitIndex_
    THEN IF LastIndex <= to
         THEN [fatal |-> TRUE, commitIndex |-> commitIndex_]
         ELSE [fatal |-> FALSE, commitIndex |-> to]
    ELSE [fatal |-> FALSE, commitIndex |-> commitIndex_]

CommitTo(to) ==
    IF to > commitIndex_
    THEN IF LastIndex < to
         THEN [fatal |-> TRUE, commitIndex |-> commitIndex_]
         ELSE [fatal |-> FALSE, commitIndex |-> to]
    ELSE [fatal |-> FALSE, commitIndex |-> commitIndex_]

\* the suffix of the run MaybeAppend hands to Append
ConflictSuffix(run) == SubSeq(run, FindConflict(run), Len(run))

\* the part of MaybeAppend that follows a match, `conflicted` being the
\* position FindConflict returns
AppendConflicted(run, conflicted) ==
    IF Len(run) = 0
    THEN [fatal |-> FALSE, unstable |-> unstable_]
    ELSE IF ConflictLogFatal(run, conflicted)
    THEN [fatal |-> TRUE, unstable |-> unstable_]
    ELSE IF conflicted # Len(run) + 1
    THEN RaftLogAppend(SubSeq(run, conflicted, Len(run)))
    ELSE [fatal |-> FALSE, unstable |-> unstable_]

\* MaybeAppend leaving newLastIndex at prevLogIndex when it rejects
MaybeAppend_NoReset(prevLogIndex, prevLogTerm, run) ==
    IF HasEntry(prevLogIndex, prevLogTerm)
    THEN CHOOSE r \in
            { [fatal |-> appended.fatal, ret |-> TRUE,
               newLastIndex |-> prevLogIndex + Len(run),
               unstable |-> appended.unstable] :
              appended \in {AppendConflicted(run, FindConflict(run))} } : TRUE
    ELSE [fatal |-> FALSE, ret |-> FALSE, newLastIndex |-> prevLogIndex,
          unstable |-> unstable_]

\* MaybeAppend treating a gap between prevLogIndex + 1 and the first entry
\* as fatal
MaybeAppend_GapFatal(prevLogIndex, prevLogTerm, run) ==
    IF HasEntry(prevLogIndex, prevLogTerm)
    THEN IF run # <<>> /\ run[1].index # prevLogIndex + 1
         THEN [fatal |-> TRUE, ret |-> TRUE,
               newLastIndex |-> prevLogIndex + Len(run), unstable |-> unstable_]
         ELSE CHOOSE r \in
                 { [fatal |-> appended.fatal, ret |-> TRUE,
                    newLastIndex |-> prevLogIndex + Len(run),
                    unstable |-> appended.unstable] :
                   appended \in {AppendConflicted(run, FindConflict(run))} } : TRUE
    ELSE [fatal |-> FALSE, ret |-> FALSE, newLastIndex |-> 0,
          unstable |-> unstable_]

MaybeAppend(prevLogIndex, prevLogTerm, run) ==
    IF HasEntry(prevLogIndex, prevLogTerm)
    THEN CHOOSE r \in
            { [fatal |-> appended.fatal, ret |-> TRUE,
               newLastIndex |-> prevLogIndex + Len(run),
               unstable |-> appended.unstable] :
              appended \in {AppendConflicted(run, FindConflict(run))} } : TRUE
    ELSE [fatal |-> FALSE, ret |-> FALSE, newLastIndex |-> 0,
          unstable |-> unstable_]

\* ApplyTo without the check against commitIndex_
ApplyTo_NoCommitBound(i) ==
    IF i = 0
    THEN [fatal |-> TRUE, lastApplied |-> lastApplied_]
    ELSE IF i < lastApplied_
    THEN [fatal |-> TRUE, lastApplied |-> lastApplied_]
    ELSE [fatal |-> FALSE, lastApplied |-> i]

\* ApplyTo without the check against lastApplied_
ApplyTo_NoLowerBound(i) ==
    IF i = 0
    THEN [fatal |-> TRUE, lastApplied |-> lastApplied_]
    ELSE IF commitIndex_ < i
    THEN [fatal |-> TRUE, lastApplied |-> lastApplied_]
    ELSE [fatal |-> FALSE, lastApplied |-> i]

ApplyTo(i) ==
    IF i = 0
    THEN [fatal |-> TRUE, lastApplied |-> lastApplied_]
    ELSE IF commitIndex_ < i \/ i < lastApplied_
    THEN [fatal |-> TRUE, lastApplied |-> lastApplied_]
    ELSE [fatal |-> FALSE, lastApplied |-> i]

\* Restore leaving commitIndex_ as it was
Restore_KeepsCommit(snap) ==
    [commitIndex |-> commitIndex_, unstable |-> UnstableRestore(snap)]

Restore(snap) ==
    [commitIndex |-> snap.index, unstable |-> UnstableRestore(snap)]

Snapshot == IF HasSnapshot THEN Ok(PendingSnapshot) ELSE StorageSnapshot

\* REQUIRED of the caller of Restore
RestoreRequired(snap) ==
    /\ snap.index > commitIndex_
    /\ ~HasEntry(snap.index, snap.term)

----------------------------------------------------------------------------
(* The state machine: one action per call on the log.                      *)
(*                                                                         *)
(* `call` is the record of the last call: the operation, how it ended      *)
(* (outcome), what it returned (ret, newLastIndex) and its arguments       *)
(* (index, term, entries).  For MaybeAppend, `matched` is                  *)
(* HasEntry(prevLogIndex, prevLogTerm) as it stood before the call; a      *)
(* message the log did not match is recorded by that alone, without its    *)
(* arguments.                                                              *)

Called(op, index, term, run, matched, fatal, ret, nli) ==
    [op |-> op, index |-> index, term |-> term, entries |-> run,
     matched |-> matched, outcome |-> IF fatal THEN "fatal" ELSE "ok",
     ret |-> ret, newLastIndex |-> nli]

\* the constructor setting unstable.offset one too high
Init_OffsetOffByOne ==
    /\ storage_ \in { s \in Storages : StorageWellFormed(s) }
    /\ unstable_ = [offset |-> storage_.last + 2, entries |-> <<>>,
                    snapshot |-> NoSnapshot]
    /\ commitIndex_ = storage_.first - 1
    /\ lastApplied_ = storage_.first - 1
    /\ alive = TRUE
    /\ call = Called("RaftLog", 0, 0, <<>>, FALSE, FALSE, FALSE, 0)

\* RaftLog::RaftLog
Init ==
    /\ storage_ \in { s \in Storages : StorageWellFormed(s) }
    /\ unstable_ = [offset |-> storage_.last + 1, entries |-> <<>>,
                    snapshot |-> NoSnapshot]
    /\ commitIndex_ = storage_.first - 1
    /\ lastApplied_ = storage_.first - 1
    /\ alive = TRUE
    /\ call = Called("RaftLog", 0, 0, <<>>, FALSE, FALSE, FALSE, 0)

\* a fatal condition ends the process (FMT_LOG(FATAL), LOG_ASSERT).  Under
\* BUILD_TESTS, Append and CommitTo throw RaftError instead: the call is
\* left at the same point, the log as it was; the run of the model ends
\* there as well.
Aborts(fatal) == alive' = ~fatal

\* the run reaches TruncateAndAppend with a start it is defined for
AppendDefined(run) ==
    (run # <<>> /\ run[1].index > commitIndex_) => TruncateAndAppendDefined(run)

\* required of the caller of Append: the entries are not the ones the log
\* already holds (MaybeAppend passes the run from its first such entry on)
AppendRequired(run) ==
    run # <<>> => ~HasEntry(run[1].index, run[1].term)

AppendStep(run) ==
    /\ alive
    /\ AppendRequired(run)
    /\ AppendDefined(run)
    /\ \E r \in {RaftLogAppend(run)} :
          /\ unstable_' = r.unstable
          /\ Aborts(r.fatal)
          /\ call' = Called("Append", 0, 0, run, FALSE, r.fatal, FALSE, 0)
    /\ UNCHANGED <<storage_, commitIndex_, lastApplied_>>

CommitToStep(to) ==
    /\ alive
    /\ \E r \in {CommitTo(to)} :
          /\ commitIndex_' = r.commitIndex
          /\ Aborts(r.fatal)
          /\ call' = Called("CommitTo", to, 0, <<>>, FALSE, r.fatal, FALSE, 0)
    /\ UNCHANGED <<storage_, unstable_, lastApplied_>>

MaybeAppendStep(prevLogIndex, prevLogTerm, run) ==
    /\ alive
    /\ \E matched \in {HasEntry(prevLogIndex, prevLogTerm)} :
       /\ matched => AppendDefined(ConflictSuffix(run))
       /\ \E r \in {MaybeAppend(prevLogIndex, prevLogTerm, run)} :
          /\ unstable_' = r.unstable
          /\ Aborts(r.fatal)
          /\ call' = IF matched
                     THEN Called("MaybeAppend", prevLogIndex, prevLogTerm, run,
                                 TRUE, r.fatal, ~r.fatal /\ r.ret, r.newLastIndex)
                     ELSE Called("MaybeAppend", 0, 0, <<>>,
                                 FALSE, r.fatal, ~r.fatal /\ r.ret, r.newLastIndex)
    /\ UNCHANGED <<storage_, commitIndex_, lastApplied_>>

ApplyToStep(i) ==
    /\ alive
    /\ \E r \in {ApplyTo(i)} :
          /\ lastApplied_' = r.lastApplied
          /\ Aborts(r.fatal)
          /\ call' = Called("ApplyTo", i, 0, <<>>, FALSE, r.fatal, FALSE, 0)
    /\ UNCHANGED <<storage_, unstable_, commitIndex_>>

RestoreStep(snap) ==
    /\ alive
    /\ RestoreRequired(snap)
    /\ \E r \in {Restore(snap)} :
          /\ commitIndex_' = r.commitIndex
          /\ unstable_' = r.unstable
          /\ call' = Called("Restore", snap.index, snap.term, <<>>, FALSE, FALSE,
                            FALSE, 0)
    /\ UNCHANGED <<storage_, lastApplied_, alive>>

LastTermStep ==
    /\ alive
    /\ \E s \in {LastTerm} :
          /\ Aborts(~s.ok)
          /\ call' = Called("LastTerm", LastIndex, 0, <<>>, FALSE, ~s.ok, FALSE, 0)
    /\ UNCHANGED <<storage_, unstable_, commitIndex_, lastApplied_>>

\* the entries of the messages MaybeAppend is called with, by prevLogIndex:
\* the entries follow prevLogIndex, or leave a gap of one index before or
\* after prevLogIndex + 1
MessageEntries ==
    [ index \in Indices |->
        { run \in Runs : run = <<>> \/ run[1].index \in index..(index + 2) } ]

\* the entries of the messages MaybeAppend is called with, given
\* prevLogIndex and prevLogTerm.  The entries of a message the log does not
\* match are not read (lines 205, 227-228): the message without entries
\* stands for all with its prevLogIndex and prevLogTerm.
Messages(prevLogIndex, prevLogTerm) ==
    IF HasEntry(prevLogIndex, prevLogTerm)
    THEN MessageEntries[prevLogIndex]
    ELSE {<<>>}

Next ==
    \/ \E run \in Runs : AppendStep(run)
    \/ \E to \in Indices : CommitToStep(to)
    \/ \E index \in Indices, logterm \in {0} \cup Terms :
          \E run \in Messages(index, logterm) :
             MaybeAppendStep(index, logterm, run)
    \/ \E i \in Indices : ApplyToStep(i)
    \/ \E snap \in Snapshots : RestoreStep(snap)
    \/ LastTermStep

Spec == Init /\ [][Next]_vars

----------------------------------------------------------------------------
(* The log observed through its queries.  A query leaves the log as it is, *)
(* so a behaviour of SpecQueries is a run of calls that return, followed   *)
(* by one query: what the log does after a query is what it does without   *)
(* it.  Here `call` holds the query and its result, and nothing before the *)
(* query is made.                                                          *)

NoQuery == [op |-> "", args |-> <<>>, outcome |-> "ok", result |-> <<>>]

\* no query has been made yet and the process runs
Running == alive /\ call = NoQuery

\* the record of a query: `outcome` is "ok", "fatal" or the code of the
\* error the query returns
Queried(op, args, outcome, result) ==
    [op |-> op, args |-> args, outcome |-> outcome, result |-> result]

AppendReturns(run) ==
    /\ Running
    /\ AppendRequired(run)
    /\ AppendDefined(run)
    /\ \E r \in {RaftLogAppend(run)} :
          /\ ~r.fatal
          /\ unstable_' = r.unstable
    /\ UNCHANGED <<storage_, commitIndex_, lastApplied_, alive, call>>

CommitToReturns(to) ==
    /\ Running
    /\ \E r \in {CommitTo(to)} :
          /\ ~r.fatal
          /\ commitIndex_' = r.commitIndex
    /\ UNCHANGED <<storage_, unstable_, lastApplied_, alive, call>>

MaybeAppendReturns(prevLogIndex, prevLogTerm, run) ==
    /\ Running
    /\ HasEntry(prevLogIndex, prevLogTerm) => AppendDefined(ConflictSuffix(run))
    /\ \E r \in {MaybeAppend(prevLogIndex, prevLogTerm, run)} :
          /\ ~r.fatal
          /\ unstable_' = r.unstable
    /\ UNCHANGED <<storage_, commitIndex_, lastApplied_, alive, call>>

ApplyToReturns(i) ==
    /\ Running
    /\ \E r \in {ApplyTo(i)} :
          /\ ~r.fatal
          /\ lastApplied_' = r.lastApplied
    /\ UNCHANGED <<storage_, unstable_, commitIndex_, alive, call>>

RestoreReturns(snap) ==
    /\ Running
    /\ RestoreRequired(snap)
    /\ \E r \in {Restore(snap)} :
          /\ commitIndex_' = r.commitIndex
          /\ unstable_' = r.unstable
    /\ UNCHANGED <<storage_, lastApplied_, alive, call>>

FindConflictStep(run) ==
    /\ Running
    /\ \E fatal \in {FindConflictFatal(run)} :
          /\ Aborts(fatal)
          /\ call' = Queried("FindConflict", [entries |-> run],
                             IF fatal THEN "fatal" ELSE "ok",
                             IF fatal THEN 0 ELSE FindConflict(run))
    /\ UNCHANGED <<storage_, unstable_, commitIndex_, lastApplied_>>

\* the outcome of a query: "fatal", "ok" or the code of the error returned
Outcome(r) == IF r.fatal THEN "fatal" ELSE IF r.code = "OK" THEN "ok" ELSE r.code

\* the budgets Entries is called with: from nothing to every payload
Budgets == 0..(2 * MaxIndex)

EntriesStep(lo, hi, maxSize) ==
    /\ Running
    /\ \E r \in {Entries(lo, hi, maxSize)} :
          /\ Aborts(r.fatal)
          /\ call' = Queried("Entries", [lo |-> lo, hi |-> hi, maxSize |-> maxSize],
                             Outcome(r), r.value)
    /\ UNCHANGED <<storage_, unstable_, commitIndex_, lastApplied_>>

IsUpToDateStep(index, term) ==
    /\ Running
    /\ \E r \in {IsUpToDate(index, term)} :
          /\ Aborts(r.fatal)
          /\ call' = Queried("IsUpToDate", [index |-> index, term |-> term],
                             IF r.fatal THEN "fatal" ELSE "ok", r.ret)
    /\ UNCHANGED <<storage_, unstable_, commitIndex_, lastApplied_>>

InitQueries ==
    /\ storage_ \in { s \in Storages : StorageWellFormed(s) }
    /\ unstable_ = [offset |-> storage_.last + 1, entries |-> <<>>,
                    snapshot |-> NoSnapshot]
    /\ commitIndex_ = storage_.first - 1
    /\ lastApplied_ = storage_.first - 1
    /\ alive = TRUE
    /\ call = NoQuery

\* once a query is made (or the process has ended) nothing follows
NextQueries ==
    \/ Running /\ \E run \in Runs : AppendReturns(run)
    \/ Running /\ \E to \in Indices : CommitToReturns(to)
    \/ Running /\ \E index \in Indices, logterm \in {0} \cup Terms :
                     \E run \in Messages(index, logterm) :
                        MaybeAppendReturns(index, logterm, run)
    \/ Running /\ \E i \in Indices : ApplyToReturns(i)
    \/ Running /\ \E snap \in Snapshots : RestoreReturns(snap)
    \/ Running /\ \E run \in Runs : FindConflictStep(run)
    \/ Running /\ \E lo \in 0..(MaxIndex + 1), hi \in 0..(MaxIndex + 1),
                      maxSize \in Budgets : EntriesStep(lo, hi, maxSize)
    \/ Running /\ \E index \in Indices, term \in {0} \cup Terms :
                     IsUpToDateStep(index, term)

SpecQueries == InitQueries /\ [][NextQueries]_vars

----------------------------------------------------------------------------
(* The claims. *)

Ok_(op) == call.op = op /\ call.outcome = "ok"

\* C1: no committed entry is ever replaced or removed.  A non-aborting
\* Append or MaybeAppend leaves Term(i) as it was for every i <= commit_index,
\* and an Append (direct, or issued by MaybeAppend for the conflicting
\* suffix) whose first index is <= commit_index is fatal and overwrites
\* nothing.
C1_CommittedNeverReplaced ==
    [][ /\ ( call'.op \in {"Append", "MaybeAppend"} /\ call'.outcome = "ok" )
           => \/ UNCHANGED <<storage_, unstable_>>
              \/ \A i \in 0..commitIndex_ : Term(i)' = Term(i)
        /\ ( /\ call'.op = "Append"
             /\ call'.entries # <<>>
             /\ call'.entries[1].index <= commitIndex_ )
           => ( call'.outcome = "fatal" /\ UNCHANGED logState )
        /\ ( call'.op = "MaybeAppend" /\ call'.matched )
           => \A suffix \in {ConflictSuffix(call'.entries)} :
                 ( suffix # <<>> /\ suffix[1].index <= commitIndex_ )
                 => ( call'.outcome = "fatal" /\ UNCHANGED logState )
      ]_vars

\* a MaybeAppend replaced the uncommitted tail of a log whose committed
\* entries sit in the unstable buffer
C1_Witness ==
    /\ Ok_("MaybeAppend") /\ call.ret
    /\ call.entries # <<>>
    /\ call.index < LastIndex
    /\ commitIndex_ >= unstable_.offset
    /\ LastIndex > commitIndex_
    /\ ~Term(LastIndex).ok \/ Term(LastIndex).value # Term(commitIndex_).value

\* C2: applied_index <= commit_index, right after construction and after
\* every operation.
C2_AppliedAtMostCommitted == lastApplied_ <= commitIndex_

\* ApplyTo has moved applied_index up to commit_index
C2_Witness ==
    /\ Ok_("ApplyTo")
    /\ lastApplied_ = call.index
    /\ lastApplied_ = commitIndex_
    /\ lastApplied_ > storage_.first - 1

\* C3: commit_index <= LastIndex(), right after construction and after every
\* operation.
C3_CommitAtMostLast == commitIndex_ <= LastIndex

\* CommitTo has moved commit_index up to LastIndex()
C3_Witness ==
    /\ Ok_("CommitTo")
    /\ commitIndex_ = call.index
    /\ commitIndex_ = LastIndex
    /\ commitIndex_ > storage_.first - 1

\* C4: commit_index never decreases, whichever operation is called.
C4_CommitMonotonic == [][commitIndex_' >= commitIndex_]_vars

\* CommitTo was called with a target below commit_index
C4_Witness ==
    /\ Ok_("CommitTo")
    /\ call.index < commitIndex_

\* C5: a MaybeAppend that returns, returns success iff
\* HasEntry(prevLogIndex, prevLogTerm) held before the call; on success
\* newLastIndex = prevLogIndex + the number of entries; on failure
\* newLastIndex = 0 and the unstable buffer, commit_index and applied_index
\* are unchanged.
C5_MaybeAppendContract ==
    [][ ( call'.op = "MaybeAppend" /\ call'.outcome = "ok" ) =>
          /\ call'.ret = call'.matched
          /\ call'.ret =>
                /\ HasEntry(call'.index, call'.term)
                /\ call'.newLastIndex = call'.index + Len(call'.entries)
          /\ ~call'.ret =>
                /\ call'.newLastIndex = 0
                /\ UNCHANGED logState
      ]_vars

\* a MaybeAppend was rejected by a log that holds entries
C5_Witness ==
    /\ Ok_("MaybeAppend")
    /\ ~call.ret
    /\ LastIndex > storage_.first - 1

\* C6: an Append of a run in which some entry has index <= commit_index is
\* fatal and leaves the unstable buffer, commit_index and applied_index as
\* they were.
C6_AppendSafety ==
    [][ ( /\ call'.op = "Append"
          /\ \E k \in 1..Len(call'.entries) :
                call'.entries[k].index <= commitIndex_ )
        => ( call'.outcome = "fatal" /\ UNCHANGED logState )
      ]_vars

\* an Append was fatal for a run that starts at or below commit_index and
\* ends above it
C6_Witness ==
    /\ call.op = "Append" /\ call.outcome = "fatal"
    /\ call.entries[1].index <= commitIndex_
    /\ call.entries[Len(call.entries)].index > commitIndex_

\* C7: CommitTo(x) changes nothing if x <= commit_index; sets commit_index
\* to x = max(commit_index, min(x, LastIndex())) if commit_index < x <=
\* LastIndex(); is fatal if x > LastIndex(); and never changes applied_index
\* or the unstable buffer.
C7_CommitTo ==
    [][ call'.op = "CommitTo" =>
          LET x == call'.index IN
          /\ x <= commitIndex_ =>
                ( call'.outcome = "ok" /\ UNCHANGED logState )
          /\ ( commitIndex_ < x /\ x <= LastIndex ) =>
                /\ call'.outcome = "ok"
                /\ commitIndex_' = x
                /\ commitIndex_' = Max(commitIndex_, Min(x, LastIndex))
          /\ x > LastIndex =>
                ( call'.outcome = "fatal" /\ UNCHANGED logState )
          /\ UNCHANGED <<lastApplied_, unstable_>>
      ]_vars

\* CommitTo has raised commit_index to its target, the last index
C7_Witness ==
    /\ Ok_("CommitTo")
    /\ commitIndex_ = call.index
    /\ call.index = LastIndex
    /\ call.index > lastApplied_

\* C8: ApplyTo(i) is fatal exactly when i = 0, i > commit_index or
\* i < applied_index; otherwise it sets applied_index to i and changes
\* nothing else; applied_index never decreases.
C8_ApplyTo ==
    [][ /\ call'.op = "ApplyTo" =>
            LET i == call'.index IN
            /\ call'.outcome = "fatal"
                  <=> ( i = 0 \/ i > commitIndex_ \/ i < lastApplied_ )
            /\ call'.outcome = "ok" =>
                  ( lastApplied_' = i /\ UNCHANGED <<unstable_, commitIndex_>> )
            /\ call'.outcome = "fatal" => UNCHANGED logState
        /\ lastApplied_' >= lastApplied_
      ]_vars

\* ApplyTo has moved applied_index to an index below commit_index
C8_Witness ==
    /\ Ok_("ApplyTo")
    /\ lastApplied_ = call.index
    /\ lastApplied_ > storage_.first - 1
    /\ lastApplied_ < commitIndex_

\* C9: in every reachable state Term(index) succeeds for every index in
\* [FirstIndex()-1, LastIndex()], right after Restore as well, and LastTerm()
\* never hits its fatal branch.
C9_DomainValidity ==
    /\ \A i \in (FirstIndex - 1)..LastIndex : Term(i).ok
    /\ ~(call.op = "LastTerm" /\ call.outcome = "fatal")

\* the indices Storage holds, and those the unstable entries hold
StorageIndices == storage_.first..storage_.last

UnstableIndices ==
    unstable_.offset..(unstable_.offset + Len(unstable_.entries) - 1)

\* the unstable entries carry the indices offset, offset+1, ..
UnstableContiguous ==
    \A k \in 1..Len(unstable_.entries) :
        unstable_.entries[k].index = unstable_.offset + k - 1

C11_FindConflict ==
    [][ call'.op = "FindConflict" =>
          LET run == call'.args.entries
              pos == call'.result
          IN  /\ call'.outcome = "ok"
              /\ pos \in 1..(Len(run) + 1)
              /\ pos = Len(run) + 1
                    <=> \A k \in 1..Len(run) : HasEntry(run[k].index, run[k].term)
              /\ pos <= Len(run) =>
                    /\ ~HasEntry(run[pos].index, run[pos].term)
                    /\ \A k \in 1..(pos - 1) : HasEntry(run[k].index, run[k].term)
              /\ UNCHANGED logState
      ]_vars

\* C12: when HasEntry(prevLogIndex, prevLogTerm) holds and the first entry's
\* index is not prevLogIndex + 1, MaybeAppend does not abort because of the
\* gap: it runs FindConflict and Append on the entries as for any message,
\* aborts only where Append does (the first entry the log does not hold is
\* at or below commit_index), and otherwise returns success, the log
\* holding the entries from that entry on.
C12_GapNotFatal ==
    [][ ( /\ call'.op = "MaybeAppend"
          /\ call'.matched
          /\ call'.entries # <<>>
          /\ call'.entries[1].index # call'.index + 1 )
        => \A run \in {call'.entries} : \A pos \in {FindConflict(run)} :
              /\ call'.outcome = "fatal"
                    <=> ( pos <= Len(run) /\ run[pos].index <= commitIndex_ )
              /\ call'.outcome = "ok" =>
                    /\ call'.ret
                    /\ call'.newLastIndex = call'.index + Len(run)
                    /\ pos <= Len(run) =>
                          /\ LastIndex' = run[Len(run)].index
                          /\ \A k \in pos..Len(run) :
                                HasEntry(run[k].index, run[k].term)'
                    /\ pos = Len(run) + 1 => UNCHANGED logState
      ]_vars

\* a message whose entries start two indices after prevLogIndex was appended
C12_Witness ==
    /\ Ok_("MaybeAppend") /\ call.ret
    /\ call.entries # <<>>
    /\ call.entries[1].index = call.index + 2
    /\ LastIndex = call.entries[Len(call.entries)].index
    /\ unstable_.entries # <<>>
    /\ unstable_.entries[Len(unstable_.entries)] = call.entries[Len(call.entries)]

\* a message whose entries start at prevLogIndex replaced the log's tail
C12_WitnessBackward ==
    /\ Ok_("MaybeAppend") /\ call.ret
    /\ call.entries # <<>>
    /\ call.entries[1].index = call.index
    /\ unstable_.entries # <<>>
    /\ unstable_.entries[Len(unstable_.entries)] = call.entries[Len(call.entries)]

\* C13: round trip.  In any reachable state, an Append([e]) that does not
\* abort, followed at once by Term(e.index), yields e.term.
C13_RoundTrip ==
    [][ ( /\ call'.op = "Append"
          /\ call'.outcome = "ok"
          /\ Len(call'.entries) = 1 )
        => \A e \in {call'.entries[1]} : Term(e.index)' = Ok(e.term)
      ]_vars

\* an Append([e]) has replaced an entry Storage holds with another term
C13_Witness ==
    /\ Ok_("Append")
    /\ Len(call.entries) = 1
    /\ call.entries[1].index \in StorageIndices
    /\ storage_.terms[call.entries[1].index] # call.entries[1].term
    /\ Term(call.entries[1].index) = Ok(call.entries[1].term)

\* C14: Restore(snapshot) with snapshot.index > commit_index leaves
\* commit_index = snapshot.index, FirstIndex() = snapshot.index + 1,
\* LastIndex() = snapshot.index, the unstable entries empty, the snapshot
\* pending (Snapshot() returns it) and applied_index as it was.
C14_Restore ==
    [][ call'.op = "Restore" =>
          \A snap \in {Entry(call'.index, call'.term)} :
             snap.index > commitIndex_ =>
                /\ commitIndex_' = snap.index
                /\ FirstIndex' = snap.index + 1
                /\ LastIndex' = snap.index
                /\ unstable_'.entries = <<>>
                /\ unstable_'.snapshot = <<snap>>
                /\ Snapshot' = Ok(snap)
                /\ lastApplied_' = lastApplied_
      ]_vars

\* Restore has put a snapshot above the entries Storage holds and above
\* applied_index
C14_Witness ==
    /\ Ok_("Restore")
    /\ Snapshot = Ok(Entry(call.index, call.term))
    /\ commitIndex_ = call.index
    /\ storage_.last >= storage_.first
    /\ call.index > storage_.last
    /\ lastApplied_ < commitIndex_

\* C15: an Entries(lo, hi, maxSize) that succeeds returns the log's entries
\* at the indices lo, lo+1, ..: a prefix of [lo, hi), the part Storage holds
\* and then the unstable part, whose payloads together do not exceed
\* maxSize; when the Storage read returns fewer entries than the stable
\* part asked for, no unstable entry follows.
C15_EntriesBudget ==
    ( call.op = "Entries" /\ call.outcome = "ok" ) =>
        \A a \in {call.args} : \A ents \in {call.result} :
           /\ Len(ents) <= a.hi - a.lo
           /\ \A k \in 1..Len(ents) :
                 /\ ents[k].index = a.lo + k - 1
                 /\ Term(ents[k].index) = Ok(ents[k].term)
           /\ TotalSize(ents) <= a.maxSize
           /\ ( \E k \in 1..Len(ents) : ents[k].index >= unstable_.offset )
                 => \A i \in a.lo..(Min(a.hi, unstable_.offset) - 1) :
                       \E k \in 1..Len(ents) : ents[k].index = i

\* Entries has returned an entry of Storage and an unstable one, which use
\* up the budget
C15_Witness ==
    /\ call.op = "Entries" /\ call.outcome = "ok"
    /\ Len(call.result) = 2
    /\ call.result[1].index < unstable_.offset
    /\ call.result[2].index >= unstable_.offset
    /\ TotalSize(call.result) = call.args.maxSize

\* a Storage read cut short by the budget has ended Entries before the
\* unstable entries asked for
C15_WitnessShort ==
    /\ call.op = "Entries" /\ call.outcome = "ok"
    /\ call.args.lo < unstable_.offset
    /\ call.args.hi > unstable_.offset
    /\ unstable_.entries # <<>>
    /\ Len(call.result) < unstable_.offset - call.args.lo
    /\ PayloadSize(unstable_.entries[1]) <= call.args.maxSize - TotalSize(call.result)

\* C16: the bounds check of Entries(lo, hi, maxSize).  lo > hi is fatal;
\* else lo < FirstIndex() returns the error LogCompacted; else
\* hi > LastIndex() + 1 is fatal; else the call goes on, and returns no
\* entry when lo = hi.  Whatever the outcome, commit_index, applied_index
\* and the unstable buffer stay as they are.
C16_EntriesBounds ==
    [][ call'.op = "Entries" =>
          \A a \in {call'.args} :
             /\ a.lo > a.hi => call'.outcome = "fatal"
             /\ ( a.lo <= a.hi /\ a.lo < FirstIndex )
                   => call'.outcome = "LogCompacted"
             /\ ( a.lo <= a.hi /\ a.lo >= FirstIndex /\ a.hi > LastIndex + 1 )
                   => call'.outcome = "fatal"
             /\ ( a.lo <= a.hi /\ a.lo >= FirstIndex /\ a.hi <= LastIndex + 1 )
                   => /\ call'.outcome = "ok"
                      /\ a.lo = a.hi => call'.result = <<>>
             /\ UNCHANGED logState
      ]_vars

\* Entries was fatal for a range that starts in the log and ends beyond
\* LastIndex() + 1
C16_Witness ==
    /\ call.op = "Entries" /\ call.outcome = "fatal"
    /\ call.args.lo <= call.args.hi
    /\ call.args.lo >= FirstIndex
    /\ call.args.lo <= LastIndex
    /\ call.args.hi > LastIndex + 1

\* the last entry of the log: the last unstable entry, else the pending
\* snapshot, else Storage's last entry
LogLast ==
    IF unstable_.entries # <<>>
    THEN unstable_.entries[Len(unstable_.entries)]
    ELSE IF HasSnapshot
    THEN PendingSnapshot
    ELSE Entry(storage_.last, storage_.terms[storage_.last])

\* C17: IsUpToDate(index, term) returns true iff term is above the term of
\* the log's last entry, or equal to it with index >= the last entry's
\* index, the last entry being that of the current log (unstable entries,
\* else pending snapshot, else Storage); it leaves the log as it is.
C17_IsUpToDate ==
    [][ call'.op = "IsUpToDate" =>
          \A a \in {call'.args} :
             /\ call'.outcome = "ok"
             /\ call'.result
                   <=> \/ a.term > LogLast.term
                       \/ ( a.term = LogLast.term /\ a.index >= LogLast.index )
             /\ UNCHANGED logState
      ]_vars

\* C18: an Append that does not abort, of a run (not empty) starting at s
\* with commit_index < s <= LastIndex() + 1, discards exactly the old
\* entries at indices >= s: afterwards LastIndex() is the index of the last
\* incoming entry, Term at each incoming index is that entry's term, Term(i)
\* is as it was for every i with FirstIndex() - 1 <= i < s, and commit_index
\* and applied_index are as they were.
C18_AppendFrame ==
    [][ ( /\ call'.op = "Append"
          /\ call'.outcome = "ok"
          /\ call'.entries # <<>> )
        => \A run \in {call'.entries} :
              ( run[1].index > commitIndex_ /\ run[1].index <= LastIndex + 1 ) =>
                 /\ LastIndex' = run[Len(run)].index
                 /\ \A k \in 1..Len(run) : Term(run[k].index)' = Ok(run[k].term)
                 /\ \A i \in (FirstIndex - 1)..(run[1].index - 1) : Term(i)' = Term(i)
                 /\ commitIndex_' = commitIndex_
                 /\ lastApplied_' = lastApplied_
      ]_vars

\* an Append has cut the unstable entries at an index inside the buffer and
\* kept those before it
C18_Witness ==
    /\ Ok_("Append")
    /\ call.entries # <<>>
    /\ call.entries[1].index > unstable_.offset
    /\ call.entries[1].index > commitIndex_ + 1
    /\ LastIndex = call.entries[Len(call.entries)].index
    /\ Term(unstable_.offset).ok

\* C19: in every state the operations reach, a pending snapshot has
\* unstable.offset = pending_snapshot.index + 1; an Append, direct or issued
\* by MaybeAppend, that follows a Restore does not start below unstable.offset
\* (the case s < offset of TruncateAndAppend) and leaves offset where it is.
C19_PendingSnapshotOffset ==
    [][ /\ HasSnapshot' => unstable_'.offset = PendingSnapshot'.index + 1
        /\ ( /\ HasSnapshot
             /\ call'.op = "Append"
             /\ call'.outcome = "ok"
             /\ call'.entries # <<>> )
           => /\ call'.entries[1].index >= unstable_.offset
              /\ unstable_'.offset = unstable_.offset
        /\ ( /\ HasSnapshot
             /\ call'.op = "MaybeAppend"
             /\ call'.outcome = "ok"
             /\ call'.matched )
           => \A suffix \in {ConflictSuffix(call'.entries)} :
                 /\ suffix # <<>> => suffix[1].index >= unstable_.offset
                 /\ unstable_'.offset = unstable_.offset
      ]_vars

\* an Append has put entries behind a pending snapshot
C19_Witness ==
    /\ HasSnapshot
    /\ Ok_("Append")
    /\ call.entries # <<>>
    /\ unstable_.entries = call.entries
    /\ unstable_.offset = PendingSnapshot.index + 1

\* C20: log matching.  When MaybeAppend returns success for entries that
\* follow prevLogIndex without a gap, the log then holds every entry of the
\* message (HasEntry(e.index, e.term)), LastIndex() >= newLastIndex, with
\* LastIndex() = newLastIndex when FindConflict found a conflict; and the
\* same MaybeAppend made again at once succeeds and leaves the log as it is.
C20_LogMatching ==
    [][ ( /\ call'.op = "MaybeAppend"
          /\ call'.outcome = "ok"
          /\ call'.ret
          /\ call'.entries # <<>> => call'.entries[1].index = call'.index + 1 )
        => \A run \in {call'.entries}, prevLogIndex \in {call'.index},
              prevLogTerm \in {call'.term}, pos \in {FindConflict(call'.entries)} :
              /\ \A k \in 1..Len(run) : HasEntry(run[k].index, run[k].term)'
              /\ LastIndex' >= call'.newLastIndex
              /\ pos <= Len(run) => LastIndex' = call'.newLastIndex
              /\ \A again \in {MaybeAppend(prevLogIndex, prevLogTerm, run)'} :
                    /\ ~again.fatal
                    /\ again.ret
                    /\ again.newLastIndex = call'.newLastIndex
                    /\ again.unstable = unstable_'
      ]_vars

\* a MaybeAppend has replaced a conflicting entry and what followed it,
\* after entries of the message that the log held already
C20_Witness ==
    /\ Ok_("MaybeAppend") /\ call.ret
    /\ Len(call.entries) >= 2
    /\ call.entries[1].index = call.index + 1
    /\ call.entries[1].index < unstable_.offset
    /\ unstable_.entries # <<>>
    /\ unstable_.entries[Len(unstable_.entries)] = call.entries[Len(call.entries)]
    /\ LastIndex = call.newLastIndex

====
